---- MODULE Spec2Model ----
(***************************************************************************)
(* YearlyAlbums: the Spotify top-albums aggregation (get_top_albums of     *)
(* YearlyAlbums.py, fetch_top_albums of YearlyAlbums_gradio.py) and the    *)
(* OAuth token lifecycle of both front ends, as state machines.            *)
(*                                                                         *)
(* Text that the code inspects character by character (release dates,      *)
(* month keys, query-parameter values, uuid state tokens) is a sequence of *)
(* one-character strings; text that is only stored and compared (tokens,   *)
(* image urls, artist names) is an atomic string; album names are opaque   *)
(* and are numbered.                                                       *)
(***************************************************************************)
EXTENDS Integers, Sequences, FiniteSets, TLC

VARIABLES
    \* ---- the aggregation run (SpecAgg)
    feed,          \* the user's long-term top tracks held by the provider
    now_year,      \* datetime.now().year during the run
    agg_pc,        \* get_top_albums: "off" | "paging" | "process" | "done"
    offset,        \* get_top_albums: local offset
    all_tracks,    \* get_top_albums: local all_tracks
    fetches,       \* offsets of the top-tracks requests issued so far
    outcome,       \* "running" | "ok" | "timeout" | "error"
    result,        \* value returned by get_top_albums (<<>> is the empty dict)
    g_pc,          \* fetch_top_albums: "off" | "start" | "done"
    g_items,       \* fetch_top_albums: top_tracks['items']
    g_outcome,     \* "running" | "ok" | "api_error" | "raised"
    g_result,      \* value returned by fetch_top_albums
    \* ---- one browser session of YearlyAlbums.py (SpecAuth)
    qp_shape,      \* what the query-parameter accessor yields: "str" | "list"
    session_state, \* st.session_state: a dict, its keys are its domain
    query_params,  \* the query string of the page, key -> text
    now,           \* the clock, in units of a second
    max_albums_per_month,  \* the slider
    pc,            \* "idle" | "start" | "auth" | "gate" | "user" | "expiry" |
                   \* "fetch" | "render"
    run,           \* what the current script run did so far (see NewRun)
    \* ---- the process of YearlyAlbums_gradio.py (SpecGradio)
    user_tokens,   \* the module-level dict, state -> token_info
    issued,        \* the states initiate_auth has generated
    token_calls,   \* the calls of get_token so far, each with its code
    reply          \* what the last entry point returned

aggVars == <<feed, now_year, agg_pc, offset, all_tracks, fetches, outcome,
             result, g_pc, g_items, g_outcome, g_result>>

authVars == <<qp_shape, session_state, query_params, now, max_albums_per_month,
              pc, run>>

gradioVars == <<user_tokens, issued, token_calls, reply>>

vars == <<aggVars, authVars, gradioVars>>

(***************************************************************************)
(* Bounds of the model.                                                    *)
(***************************************************************************)
MaxTracks == 2      \* longest feed drawn freely from the catalogue
MaxPages == 2       \* long feeds have up to MaxPages full pages

Min(a, b) == IF a < b THEN a ELSE b

(***************************************************************************)
(* Python text primitives.                                                 *)
(***************************************************************************)
Digits == <<"0", "1", "2", "3", "4", "5", "6", "7", "8", "9">>

IsDigit(c) == \E i \in 1..10 : Digits[i] = c

DigitVal(c) == (CHOOSE i \in 1..10 : Digits[i] = c) - 1

DigitChar(n) == Digits[n + 1]

\* the character at 1-based position i, or "$" past the end of the text
At(s, i) == IF i \in 1..Len(s) THEN s[i] ELSE "$"

ValueError == [ok |-> FALSE, year |-> 0, month |-> 0, day |-> 0]

IsLeap(y) == (y % 4 = 0) /\ ((y % 100 # 0) \/ (y % 400 = 0))

DaysInMonth(y, m) ==
    IF m = 2 THEN (IF IsLeap(y) THEN 29 ELSE 28)
    ELSE IF m \in {4, 6, 9, 11} THEN 30 ELSE 31

\* datetime(year, month, day): ValueError outside MINYEAR..MAXYEAR and the
\* days of the month
MakeDate(y, m, d) ==
    IF y >= 1 /\ m \in 1..12 /\ d >= 1 /\ d <= DaysInMonth(y, m)
    THEN [ok |-> TRUE, year |-> y, month |-> m, day |-> d]
    ELSE ValueError

\* %Y is exactly four digits
MatchYear(s) ==
    IF \A i \in 1..4 : IsDigit(At(s, i))
    THEN [ok |-> TRUE,
          val |-> 1000 * DigitVal(s[1]) + 100 * DigitVal(s[2])
                  + 10 * DigitVal(s[3]) + DigitVal(s[4]),
          next |-> 5]
    ELSE [ok |-> FALSE, val |-> 0, next |-> 0]

\* %m is 1[0-2] | 0[1-9] | [1-9], tried in that order at position p
MatchMonth(s, p) ==
    LET a == At(s, p)
        b == At(s, p + 1)
    IN  IF a = "1" /\ b \in {"0", "1", "2"}
        THEN [ok |-> TRUE, val |-> 10 + DigitVal(b), next |-> p + 2]
        ELSE IF a = "0" /\ IsDigit(b) /\ b # "0"
        THEN [ok |-> TRUE, val |-> DigitVal(b), next |-> p + 2]
        ELSE IF IsDigit(a) /\ a # "0"
        THEN [ok |-> TRUE, val |-> DigitVal(a), next |-> p + 1]
        ELSE [ok |-> FALSE, val |-> 0, next |-> 0]

\* %d is 3[0-1] | [1-2]\d | 0[1-9] | [1-9] | " "[1-9], tried in that order
MatchDay(s, p) ==
    LET a == At(s, p)
        b == At(s, p + 1)
    IN  IF a = "3" /\ b \in {"0", "1"}
        THEN [ok |-> TRUE, val |-> 30 + DigitVal(b), next |-> p + 2]
        ELSE IF a \in {"1", "2"} /\ IsDigit(b)
        THEN [ok |-> TRUE, val |-> 10 * DigitVal(a) + DigitVal(b), next |-> p + 2]
        ELSE IF a = "0" /\ IsDigit(b) /\ b # "0"
        THEN [ok |-> TRUE, val |-> DigitVal(b), next |-> p + 2]
        ELSE IF IsDigit(a) /\ a # "0"
        THEN [ok |-> TRUE, val |-> DigitVal(a), next |-> p + 1]
        ELSE IF a = " " /\ IsDigit(b) /\ b # "0"
        THEN [ok |-> TRUE, val |-> DigitVal(b), next |-> p + 2]
        ELSE [ok |-> FALSE, val |-> 0, next |-> 0]

\* strptime with 12 as the month a year-only text defaults to
strptime_mut(s, fmt) ==
    LET y == MatchYear(s)
    IN  IF ~y.ok THEN ValueError
        ELSE IF fmt = "%Y"
        THEN (IF Len(s) = 4 THEN MakeDate(y.val, 12, 1) ELSE ValueError)
        ELSE IF At(s, 5) # "-" THEN ValueError
        ELSE LET m == MatchMonth(s, 6)
             IN  IF ~m.ok THEN ValueError
                 ELSE IF fmt = "%Y-%m"
                 THEN (IF m.next = Len(s) + 1
                       THEN MakeDate(y.val, m.val, 1) ELSE ValueError)
                 ELSE IF At(s, m.next) # "-" THEN ValueError
                 ELSE LET d == MatchDay(s, m.next + 1)
                      IN  IF d.ok /\ d.next = Len(s) + 1
                          THEN MakeDate(y.val, m.val, d.val)
                          ELSE ValueError

\* datetime.strptime(s, fmt) for the three formats the code uses: the
\* format's pattern must match at the start of the text and consume all of
\* it; a field the format lacks defaults to 1
strptime(s, fmt) ==
    LET y == MatchYear(s)
    IN  IF ~y.ok THEN ValueError
        ELSE IF fmt = "%Y"
        THEN (IF Len(s) = 4 THEN MakeDate(y.val, 1, 1) ELSE ValueError)
        ELSE IF At(s, 5) # "-" THEN ValueError
        ELSE LET m == MatchMonth(s, 6)
             IN  IF ~m.ok THEN ValueError
                 ELSE IF fmt = "%Y-%m"
                 THEN (IF m.next = Len(s) + 1
                       THEN MakeDate(y.val, m.val, 1) ELSE ValueError)
                 ELSE IF At(s, m.next) # "-" THEN ValueError
                 ELSE LET d == MatchDay(s, m.next + 1)
                      IN  IF d.ok /\ d.next = Len(s) + 1
                          THEN MakeDate(y.val, m.val, d.val)
                          ELSE ValueError

\* date.strftime("%m/%y"): two-digit month, "/", two-digit year of century
strftime_m_y(date) ==
    <<DigitChar(date.month \div 10), DigitChar(date.month % 10), "/",
      DigitChar((date.year % 100) \div 10), DigitChar(date.year % 10)>>

(***************************************************************************)
(* The per-track loop shared by get_top_albums (YearlyAlbums.py 89-125)    *)
(* and fetch_top_albums (YearlyAlbums_gradio.py 86-122).                   *)
(***************************************************************************)
AlbumKeys == {"name", "release_date", "images", "artists", "total_tracks"}

\* ", ".join(names): the names with the separator between neighbours
RECURSIVE JoinArtists(_)
JoinArtists(names) ==
    IF Len(names) = 0 THEN <<>>
    ELSE IF Len(names) = 1 THEN <<names[1]>>
    ELSE <<names[1], ", ">> \o JoinArtists(Tail(names))

\* album_images[0]['url'] if album_images else None
AlbumImageUrl(album) ==
    IF Len(album.images) > 0 THEN album.images[1] ELSE "None"

\* the dict appended to a bucket
AlbumRecord(album) ==
    [name |-> album.name,
     artist |-> JoinArtists(album.artists),
     image_url |-> AlbumImageUrl(album)]

\* the threshold off by one: an album of exactly three tracks is skipped
TooFewTracks_mut(album) == album.total_tracks <= 3

\* if total_tracks < 3: continue
TooFewTracks(album) == album.total_tracks < 3

\* the guard dropped: a text that does not parse, or a year outside
\* 1901..now, counts as the first of January of the current year
ParseReleaseDate_mut(release_date, year_now) ==
    LET played_at ==
            IF Len(release_date) = 4 THEN strptime(release_date, "%Y")
            ELSE IF Len(release_date) = 7 THEN strptime(release_date, "%Y-%m")
            ELSE strptime(release_date, "%Y-%m-%d")
    IN  IF played_at.ok /\ played_at.year > 1900 /\ played_at.year <= year_now
        THEN played_at
        ELSE MakeDate(year_now, 1, 1)

\* the inner try: the format is chosen by the length of the text, and a
\* parsed year outside 1901..now is turned into a ValueError as well
ParseReleaseDate(release_date, year_now) ==
    LET played_at ==
            IF Len(release_date) = 4 THEN strptime(release_date, "%Y")
            ELSE IF Len(release_date) = 7 THEN strptime(release_date, "%Y-%m")
            ELSE strptime(release_date, "%Y-%m-%d")
    IN  IF played_at.ok /\ (played_at.year <= 1900 \/ played_at.year > year_now)
        THEN ValueError
        ELSE played_at

\* the December condition dropped: any month of the year before is kept
InWindow_mut(played_at, current_year) ==
    \/ played_at.year = current_year
    \/ played_at.year = current_year - 1

\* released in the current year, or in December of the year before
InWindow(played_at, current_year) ==
    \/ played_at.year = current_year
    \/ (played_at.year = current_year - 1 /\ played_at.month = 12)

EmptyDict == [k \in {} |-> <<>>]

DictGet(d, k, default) == IF k \in DOMAIN d THEN d[k] ELSE default

\* top_albums[month_str].append(rec) on a defaultdict(list)
DictAppend(d, k, rec) ==
    IF k \in DOMAIN d THEN [d EXCEPT ![k] = Append(@, rec)]
    ELSE d @@ (k :> <<rec>>)

LoopStart == [top_albums |-> EmptyDict, seen_albums |-> {}, raised |-> FALSE]

\* the loop without the seen_albums test: every qualifying track is appended
ProcessTrack_mut(st, track, current_year) ==
    LET album == track.album
    IN  IF ~(AlbumKeys \subseteq DOMAIN album) THEN [st EXCEPT !.raised = TRUE]
        ELSE IF TooFewTracks(album) THEN st
        ELSE LET played_at == ParseReleaseDate(album.release_date, current_year)
             IN  IF ~played_at.ok THEN st
                 ELSE IF ~InWindow(played_at, current_year) THEN st
                 ELSE [st EXCEPT
                         !.top_albums = DictAppend(@, strftime_m_y(played_at),
                                                   AlbumRecord(album)),
                         !.seen_albums = @ \cup {album.name}]

\* one iteration of "for track in all_tracks"; a field missing from the
\* album is a KeyError, which leaves the loop
ProcessTrack(st, track, current_year) ==
    LET album == track.album
    IN  IF ~(AlbumKeys \subseteq DOMAIN album) THEN [st EXCEPT !.raised = TRUE]
        ELSE IF TooFewTracks(album) THEN st
        ELSE LET played_at == ParseReleaseDate(album.release_date, current_year)
             IN  IF ~played_at.ok THEN st
                 ELSE IF ~InWindow(played_at, current_year) THEN st
                 ELSE IF album.name \in st.seen_albums THEN st
                 ELSE [st EXCEPT
                         !.top_albums = DictAppend(@, strftime_m_y(played_at),
                                                   AlbumRecord(album)),
                         !.seen_albums = @ \cup {album.name}]

\* "for track in all_tracks" over the tracks lo..hi, in order, left at the
\* first exception; the range is walked by halves only to keep the
\* evaluation shallow
RECURSIVE ProcessRange(_, _, _, _, _)
ProcessRange(st, tracks, lo, hi, current_year) ==
    IF st.raised \/ lo > hi THEN st
    ELSE IF lo = hi THEN ProcessTrack(st, tracks[lo], current_year)
    ELSE LET mid == (lo + hi) \div 2
         IN  ProcessRange(ProcessRange(st, tracks, lo, mid, current_year),
                          tracks, mid + 1, hi, current_year)

ProcessTracks(tracks, current_year) ==
    ProcessRange(LoopStart, tracks, 1, Len(tracks), current_year)

\* range(1, 12) for range(1, 13): December of the current year is lost
Months_mut(current_year) ==
    <<strftime_m_y(MakeDate(current_year - 1, 12, 1))>>
    \o [m \in 1..11 |-> strftime_m_y(MakeDate(current_year, m, 1))]

\* months: December of the year before, then range(1, 13) of the current year
Months(current_year) ==
    <<strftime_m_y(MakeDate(current_year - 1, 12, 1))>>
    \o [m \in 1..12 |-> strftime_m_y(MakeDate(current_year, m, 1))]

\* {month: top_albums.get(month, []) for month in months}; the thirteen keys
\* are distinct, so the dict keeps one entry per month, in this order
OrderedTopAlbums(top_albums, current_year) ==
    LET months == Months(current_year)
    IN  [i \in 1..Len(months) |->
            [month |-> months[i], albums |-> DictGet(top_albums, months[i], <<>>)]]

(***************************************************************************)
(* The provider's feed: the inputs of an aggregation run.                  *)
(***************************************************************************)
PageSize == 50

Years == {2024, 2025}

Album(name, release_date, images, artists, total_tracks) ==
    [album |-> [name |-> name, release_date |-> release_date, images |-> images,
                artists |-> artists, total_tracks |-> total_tracks]]

TwoDigits(n) == <<DigitChar(n \div 10), DigitChar(n % 10)>>

FullDate(y, m, d) ==
    <<DigitChar(y \div 1000), DigitChar((y \div 100) % 10)>> \o TwoDigits(y % 100)
    \o <<"-">> \o TwoDigits(m) \o <<"-">> \o TwoDigits(d)

\* albums that differ in the fields the loop reads: names shared between
\* albums, each date granularity, dates in and out of the window, unparsable
\* dates, track counts around the threshold
Catalogue ==
    { Album(1, <<"2","0","2","4","-","0","3","-","1","5">>, <<"u1">>, <<"X">>, 10),
      Album(1, <<"2","0","2","4","-","0","5">>, <<>>, <<"Z">>, 3),
      Album(2, <<"2","0","2","4","-","0","3","-","0","1">>, <<"u2", "u3">>, <<"X", "Y">>, 3),
      Album(2, <<"2","0","2","4","-","0","3","-","1","5">>, <<"u1">>, <<"Z">>, 2),
      Album(3, <<"2","0","2","4","-","1","2","-","2","5">>, <<"u3">>, <<"Y">>, 5),
      Album(3, <<"2","0","2","4","-","1","1","-","3","0">>, <<"u1">>, <<"X">>, 4),
      Album(4, <<"2","0","2","5">>, <<"u2">>, <<"Y">>, 4),
      Album(4, <<"2","0","2","4">>, <<"u1">>, <<"Z">>, 12),
      Album(5, <<"1","8","9","9","-","0","1","-","0","1">>, <<"u1">>, <<"Y">>, 9),
      Album(6, <<"2","0","2","4","-","0","2","-","3","0">>, <<"u2">>, <<"Z">>, 8),
      Album(6, <<"2","0","2","5","-","1","-","7">>, <<"u2">>, <<"X">>, 3),
      [album |-> [name |-> 7, images |-> <<>>, artists |-> <<"X">>,
                  total_tracks |-> 5]] }

RECURSIVE SeqsUpTo(_, _)
SeqsUpTo(S, n) ==
    IF n = 0 THEN {<<>>}
    ELSE LET shorter == SeqsUpTo(S, n - 1)
         IN  shorter \cup {Append(q, x) : q \in shorter, x \in S}

\* a feed of n distinct albums, every one with three tracks or more, released
\* month after month of 2024
LongTrack(i) ==
    Album(100 + i, FullDate(2024, ((i - 1) % 12) + 1, 1), <<"u1">>, <<"X">>, 3 + (i % 2))

LongFeed(n) == [i \in 1..n |-> LongTrack(i)]

LongLengths ==
    {k * PageSize + d : k \in 0..MaxPages, d \in {0, 1, 2, PageSize - 1}}

Feeds == SeqsUpTo(Catalogue, MaxTracks) \cup {LongFeed(n) : n \in LongLengths}

\* current_user_top_tracks(limit=50, offset=offset)['items']
Page(tracks, off) == SubSeq(tracks, off + 1, Min(off + PageSize, Len(tracks)))

(***************************************************************************)
(* get_top_albums (YearlyAlbums.py) and fetch_top_albums (gradio): a run of *)
(* one or of the other on the feed.                                        *)
(***************************************************************************)
SliderDefault == 5

AuthParked ==
    /\ qp_shape = "str"
    /\ session_state = EmptyDict
    /\ query_params = EmptyDict
    /\ now = 0
    /\ max_albums_per_month = SliderDefault
    /\ pc = "idle"
    /\ run = <<>>

GradioParked ==
    /\ user_tokens = EmptyDict
    /\ issued = {}
    /\ token_calls = <<>>
    /\ reply = "none"

InitAgg ==
    /\ AuthParked
    /\ GradioParked
    /\ feed \in Feeds
    /\ now_year \in Years
    /\ \/ agg_pc = "paging" /\ g_pc = "off"
       \/ agg_pc = "off" /\ g_pc = "start"
    /\ offset = 0
    /\ all_tracks = <<>>
    /\ fetches = <<>>
    /\ outcome = "running"
    /\ result = <<>>
    /\ g_items = <<>>
    /\ g_outcome = "running"
    /\ g_result = <<>>

\* "<=" for "<": a full page ends the loop
LastPage_mut(page) == Len(page) <= PageSize

\* if len(top_tracks['items']) < 50: break
LastPage(page) == Len(page) < PageSize

\* one turn of "while True": a request for the page at offset, which the
\* provider answers, or which times out, or which fails otherwise; both
\* failures leave through the outer except clauses, returning {}
FetchPage ==
    /\ agg_pc = "paging"
    /\ fetches' = Append(fetches, offset)
    /\ \/ /\ all_tracks' = all_tracks \o Page(feed, offset)
          /\ IF LastPage(Page(feed, offset))
             THEN agg_pc' = "process" /\ offset' = offset
             ELSE agg_pc' = "paging" /\ offset' = offset + PageSize
          /\ UNCHANGED <<outcome, result>>
       \/ /\ agg_pc' = "done"
          /\ outcome' = "timeout"
          /\ result' = <<>>
          /\ UNCHANGED <<offset, all_tracks>>
       \/ /\ agg_pc' = "done"
          /\ outcome' = "error"
          /\ result' = <<>>
          /\ UNCHANGED <<offset, all_tracks>>
    /\ UNCHANGED <<feed, now_year, g_pc, g_items, g_outcome, g_result>>
    /\ UNCHANGED <<authVars, gradioVars>>

\* the for loop over all_tracks, then the ordered dict; an exception raised
\* in the loop is caught by "except Exception", which returns {}
BuildTopAlbums ==
    /\ agg_pc = "process"
    /\ LET st == ProcessTracks(all_tracks, now_year)
       IN  IF st.raised
           THEN outcome' = "error" /\ result' = <<>>
           ELSE /\ outcome' = "ok"
                /\ result' = OrderedTopAlbums(st.top_albums, now_year)
    /\ agg_pc' = "done"
    /\ UNCHANGED <<feed, now_year, offset, all_tracks, fetches,
                   g_pc, g_items, g_outcome, g_result>>
    /\ UNCHANGED <<authVars, gradioVars>>

\* fetch_top_albums: one request with limit=50 and no offset; only a
\* SpotifyException is caught (returning {}); any other failure of the
\* request, and any exception of the loop, leaves the function
fetch_top_albums ==
    /\ g_pc = "start"
    /\ g_pc' = "done"
    /\ \/ /\ g_items' = Page(feed, 0)
          /\ LET st == ProcessTracks(Page(feed, 0), now_year)
             IN  IF st.raised
                 THEN g_outcome' = "raised" /\ g_result' = <<>>
                 ELSE /\ g_outcome' = "ok"
                      /\ g_result' = OrderedTopAlbums(st.top_albums, now_year)
       \/ g_outcome' = "api_error" /\ g_result' = <<>> /\ g_items' = <<>>
       \/ g_outcome' = "raised" /\ g_result' = <<>> /\ g_items' = <<>>
    /\ UNCHANGED <<feed, now_year, agg_pc, offset, all_tracks, fetches, outcome,
                   result>>
    /\ UNCHANGED <<authVars, gradioVars>>

NextAgg == FetchPage \/ BuildTopAlbums \/ fetch_top_albums

SpecAgg == InitAgg /\ [][NextAgg]_vars

(***************************************************************************)
(* One browser session of YearlyAlbums.py.  Streamlit runs the script from *)
(* top to bottom on every page load and on every widget interaction;       *)
(* st.session_state lives as long as the page's connection and the query   *)
(* string is that of the page's URL, so a new query string comes with a    *)
(* new, empty session state.  The clock advances between runs.             *)
(***************************************************************************)
MaxNow == 2         \* the clock runs from 0 to MaxNow
MaxLifetime == 1    \* expires_in is 1..MaxLifetime

SliderMin == 3

\* the slider positions the user picks from
SliderValues == {SliderMin, SliderDefault}

\* None, where the code expects a text
NoneText == <<"None">>

\* the outcome of an indexing that raised IndexError
IndexError == <<"IndexError">>

\* str(uuid.uuid4()): 36 characters with hyphens at 9, 14, 19 and 24
UuidText(c) == [i \in 1..36 |-> IF i \in {9, 14, 19, 24} THEN "-" ELSE c]

Uuids == {UuidText("a"), UuidText("b")}

Code1 == <<"c", "1">>

\* the query strings a page is loaded with: none; ?error=no; ?code=c1 with
\* no state, with a uuid as state, with an empty state; ?code=&state=uuid
QueryStrings ==
    {EmptyDict, "error" :> <<"n", "o">>, "code" :> Code1}
    \cup {("code" :> Code1) @@ ("state" :> s) : s \in Uuids \cup {<<>>}}
    \cup {("code" :> <<>>) @@ ("state" :> UuidText("a"))}

\* value[0] on a query-parameter value.  st.query_params holds one str per
\* key, so [0] is its first character and raises on the empty string; the
\* accessor it replaced (experimental_get_query_params) held a list of str
\* per key, for which [0] is the first value, whole.
Index0(value) ==
    IF qp_shape = "list" THEN value
    ELSE IF value = <<>> THEN IndexError ELSE <<value[1]>>

\* query_params.get('state', [None])[0]
ReceivedState(q) ==
    IF "state" \in DOMAIN q THEN Index0(q["state"]) ELSE NoneText

Put(d, k, v) == [x \in DOMAIN d \cup {k} |-> IF x = k THEN v ELSE d[x]]

Pop(d, k) == [x \in DOMAIN d \ {k} |-> d[x]]

AccessTokens == {"at1", "at2"}

\* the refresh token the provider issues along with an access token
RefreshTokenOf(a) == IF a = "at1" THEN "rt1" ELSE "rt2"

Lifetimes == 1..MaxLifetime

\* response.json() of a 2xx answer: complete, without refresh_token,
\* without expires_in, without access_token
Payloads ==
    {[access_token |-> a, refresh_token |-> RefreshTokenOf(a), expires_in |-> e] :
        a \in AccessTokens, e \in Lifetimes}
    \cup {[access_token |-> "at2", expires_in |-> e] : e \in Lifetimes}
    \cup {[access_token |-> "at1", refresh_token |-> "rt1"],
          [token_type |-> "Bearer"]}

NoResponse == [kind |-> "none"]

\* what requests.post to the token endpoint can end in: a 4xx or 5xx answer
\* (raise_for_status raises HTTPError), no answer (a transport exception),
\* a 2xx answer with a payload
Responses ==
    {[kind |-> "http_error", status |-> s] : s \in {400, 503}}
    \cup {[kind |-> "transport"]}
    \cup {[kind |-> "ok", payload |-> p] : p \in Payloads}

TokenKeys == {"access_token", "refresh_token", "expires_at", "authenticated"}

TokenState(ss) == [k \in TokenKeys \cap DOMAIN ss |-> ss[k]]

\* the try block storing 'authenticated' before it reads expires_in
ExchangeCode_mut(ss, resp, t) ==
    IF resp.kind # "ok" THEN [ss |-> ss, done |-> FALSE]
    ELSE LET p == resp.payload
             s1 == Put(ss, "access_token", p["access_token"])
             s2 == Put(s1, "refresh_token",
                       DictGet(p, "refresh_token", "None"))
             s3 == Put(s2, "authenticated", TRUE)
             s4 == Put(s3, "expires_at", t + p["expires_in"])
         IN  IF "access_token" \notin DOMAIN p THEN [ss |-> ss, done |-> FALSE]
             ELSE IF "expires_in" \notin DOMAIN p
                  THEN [ss |-> s3, done |-> FALSE]
                  ELSE [ss |-> s4, done |-> TRUE]

\* the try block of handle_auth after the request: the session state it
\* leaves and whether it reached the rerun; a missing payload key raises
\* KeyError at its line, keeping the assignments made before it
ExchangeCode(ss, resp, t) ==
    IF resp.kind # "ok" THEN [ss |-> ss, done |-> FALSE]
    ELSE LET p == resp.payload
             s1 == Put(ss, "access_token", p["access_token"])
             s2 == Put(s1, "refresh_token",
                       DictGet(p, "refresh_token", "None"))
             s3 == Put(s2, "expires_at", t + p["expires_in"])
             s4 == Put(s3, "authenticated", TRUE)
         IN  IF "access_token" \notin DOMAIN p THEN [ss |-> ss, done |-> FALSE]
             ELSE IF "expires_in" \notin DOMAIN p
                  THEN [ss |-> s2, done |-> FALSE]
                  ELSE [ss |-> s4, done |-> TRUE]

\* refresh_access_token storing token_info.get('refresh_token') whatever
\* the answer holds, as handle_auth does
refresh_access_token_mut(ss, resp, t) ==
    IF resp.kind # "ok" THEN [ss |-> ss, ret |-> "None"]
    ELSE LET p == resp.payload
             s1 == Put(ss, "access_token", p["access_token"])
             s2 == Put(s1, "expires_at", t + p["expires_in"])
             s3 == Put(s2, "refresh_token", DictGet(p, "refresh_token", "None"))
         IN  IF "access_token" \notin DOMAIN p THEN [ss |-> ss, ret |-> "None"]
             ELSE IF "expires_in" \notin DOMAIN p
                  THEN [ss |-> s1, ret |-> "None"]
                  ELSE [ss |-> s3, ret |-> p["access_token"]]

\* refresh_access_token after the request: the session state it leaves and
\* the value it returns ("None" from the except clauses)
refresh_access_token(ss, resp, t) ==
    IF resp.kind # "ok" THEN [ss |-> ss, ret |-> "None"]
    ELSE LET p == resp.payload
             s1 == Put(ss, "access_token", p["access_token"])
             s2 == Put(s1, "expires_at", t + p["expires_in"])
             s3 == IF "refresh_token" \in DOMAIN p
                   THEN Put(s2, "refresh_token", p["refresh_token"])
                   ELSE s2
         IN  IF "access_token" \notin DOMAIN p THEN [ss |-> ss, ret |-> "None"]
             ELSE IF "expires_in" \notin DOMAIN p
                  THEN [ss |-> s1, ret |-> "None"]
                  ELSE [ss |-> s3, ret |-> p["access_token"]]

\* the four pops, keeping refresh_token
ClearAuthentication_mut(ss) ==
    Pop(Pop(Pop(ss, "authenticated"), "access_token"), "expires_at")

\* the four session_state.pop calls after a failed refresh
ClearAuthentication(ss) ==
    Pop(Pop(Pop(Pop(ss, "authenticated"), "access_token"), "refresh_token"),
        "expires_at")

\* the None placeholder of albums_by_month
NoAlbum == [placeholder |-> "None"]

\* top_albums[month][:max_albums_per_month], padded with None up to
\* max_albums_per_month
MonthRow(albums, limit) ==
    [k \in 1..limit |-> IF k <= Len(albums) THEN albums[k] ELSE NoAlbum]

\* the padding loop run on the stored list itself, without the slice:
\* nothing is cut and the None entries land in the session's list
month_albums_mut(albums, limit) ==
    LET padded == [k \in 1..(IF Len(albums) < limit THEN limit ELSE Len(albums)) |->
                      IF k <= Len(albums) THEN albums[k] ELSE NoAlbum]
    IN  [row |-> padded, stored |-> padded]

\* one turn of the albums_by_month loop: month_albums is a slice, that is
\* a new list, so the appends go to it; row is the list put into
\* albums_by_month, stored the list top_albums[month] holds afterwards
month_albums(albums, limit) ==
    [row |-> MonthRow(albums, limit), stored |-> albums]

AlbumsByMonth(top_albums, limit) ==
    [i \in 1..Len(top_albums) |->
        [month |-> top_albums[i].month,
         albums |-> month_albums(top_albums[i].albums, limit).row]]

\* the session's top_albums after the grid and the albums_by_month loop;
\* the grid's "albums = albums[:max_albums_per_month]" only rebinds a local
TopAlbumsAfterRender(top_albums, limit) ==
    [i \in 1..Len(top_albums) |->
        [month |-> top_albums[i].month,
         albums |-> month_albums(top_albums[i].albums, limit).stored]]

\* the feed of the session's user: four albums of January 2024, one of
\* February 2024
SessionFeed ==
    <<LongTrack(1), LongTrack(13), LongTrack(25), LongTrack(37), LongTrack(2)>>

\* get_top_albums as a whole: the ordered dict, or {} from an except clause
get_top_albums(tracks, current_year, fetch_outcome) ==
    LET st == ProcessTracks(tracks, current_year)
    IN  IF fetch_outcome = "ok" /\ ~st.raised
        THEN OrderedTopAlbums(st.top_albums, current_year)
        ELSE <<>>

\* what a script run has done so far
NewRun ==
    [after_failed_refresh |-> FALSE, \* the run before ended in the rerun
                                     \* that follows a failed refresh
     qp       |-> EmptyDict,    \* the query string handle_auth saw
     stored   |-> NoneText,     \* session_state.get('oauth_state') it saw
     before   |-> EmptyDict,    \* the token keys when handle_auth began
     after    |-> EmptyDict,    \* the token keys when handle_auth ended
     auth     |-> "not_called", \* handle_auth: "None" | "IndexError" | "rerun"
     csrf     |-> FALSE,        \* the state-mismatch error was shown
     compared |-> {},           \* the received states that the runs of this
                                \* session have compared with the stored one
     repeat   |-> FALSE,        \* the state this run compared had been
                                \* compared by an earlier run of the session
     endpoint |-> NoResponse,   \* the token endpoint's answer to this
                                \* callback's code
     posts    |-> <<>>,         \* the requests sent to the token endpoint
     link     |-> FALSE,        \* the authentication link was shown
     calls    |-> <<>>,         \* the Spotify API calls made
     expiry   |-> <<>>,         \* the expires_at the expiry check read
     refresh  |-> "none",       \* "none" | "ok" | "failed"
     at       |-> 0,            \* datetime.now() of the run
     fetched  |-> FALSE,        \* get_top_albums was invoked
     fetched_with |-> NoneText, \* the access token that fetched the
                                \* 'top_albums' the session holds
     exchanged |-> {},          \* the codes the session has exchanged
                                \* successfully so far
     resubmitted |-> FALSE,     \* the code this run posted had been
                                \* exchanged successfully before
     fetched_albums |-> <<>>,   \* what that get_top_albums call returned
     rows     |-> <<>>,         \* the albums_by_month of this run
     fetch_outcome |-> "none",  \* how that get_top_albums call ended:
                                \* "none" | "ok" | "timeout" | "error"
     raised   |-> "none",       \* the exception that ended the run, if any
     offered  |-> <<>>]         \* the rows of the image offered for download

AggParked ==
    /\ agg_pc = "off"
    /\ g_pc = "off"
    /\ offset = 0
    /\ all_tracks = <<>>
    /\ fetches = <<>>
    /\ outcome = "running"
    /\ result = <<>>
    /\ g_items = <<>>
    /\ g_outcome = "running"
    /\ g_result = <<>>

\* the first load of the page
InitAuth ==
    /\ AggParked
    /\ GradioParked
    /\ feed = SessionFeed
    /\ now_year = 2024
    /\ qp_shape \in {"str", "list"}
    /\ session_state = EmptyDict
    /\ query_params \in QueryStrings
    /\ now = 0
    /\ max_albums_per_month = SliderDefault
    /\ pc = "start"
    /\ run = NewRun

authFrame == <<aggVars, gradioVars, qp_shape>>

\* the top of the script: a new run; 'oauth_state' is set if not present
ScriptStart ==
    /\ pc = "start"
    /\ run' = [NewRun EXCEPT !.after_failed_refresh = (run.refresh = "failed"),
                             !.compared = run.compared,
                             !.fetched_with = run.fetched_with,
                             !.fetch_outcome = run.fetch_outcome,
                             !.fetched_albums = run.fetched_albums,
                             !.exchanged = run.exchanged,
                             !.at = now]
    /\ IF "oauth_state" \in DOMAIN session_state
       THEN session_state' = session_state
       ELSE \E u \in Uuids : session_state' = Put(session_state, "oauth_state", u)
    /\ pc' = "auth"
    /\ UNCHANGED <<query_params, now, max_albums_per_month, authFrame>>

\* the query string left untouched by the call
experimental_set_query_params_mut(q) == q

\* st.experimental_set_query_params() without arguments: the query string
\* becomes empty
experimental_set_query_params(q) == EmptyDict

\* handle_auth().  An IndexError leaves the function and the script; the
\* rerun after a completed exchange starts the script again.
handle_auth ==
    /\ pc = "auth"
    /\ \E resp \in Responses :
         LET stored == session_state["oauth_state"]
             seen == [run EXCEPT !.qp = query_params,
                                 !.stored = stored,
                                 !.before = TokenState(session_state),
                                 !.after = TokenState(session_state)]
         IN  IF "code" \in DOMAIN query_params
             THEN LET code == Index0(query_params["code"])
                      received_state == ReceivedState(query_params)
                      called == [seen EXCEPT !.endpoint = resp]
                      post == [grant_type |-> "authorization_code",
                               code |-> code, response |-> resp]
                      ex == ExchangeCode(session_state, resp, now)
                  IN  IF code = IndexError \/ received_state = IndexError
                      THEN /\ run' = [called EXCEPT !.auth = "IndexError",
                                                    !.raised = "IndexError"]
                           /\ pc' = "idle"
                           /\ UNCHANGED <<session_state, query_params>>
                      ELSE IF received_state # stored
                      THEN /\ run' = [called EXCEPT
                                        !.compared = @ \cup {received_state},
                                        !.repeat = received_state \in run.compared,
                                        !.auth = "None",
                                        !.csrf = TRUE]
                           /\ pc' = "gate"
                           /\ UNCHANGED <<session_state, query_params>>
                      ELSE /\ session_state' = ex.ss
                           /\ run' = [called EXCEPT
                                        !.compared = @ \cup {received_state},
                                        !.repeat = received_state \in run.compared,
                                        !.posts = Append(@, post),
                                        !.resubmitted = code \in run.exchanged,
                                        !.exchanged = IF ex.done
                                                      THEN @ \cup {code}
                                                      ELSE @,
                                        !.after = TokenState(ex.ss),
                                        !.auth = IF ex.done THEN "rerun"
                                                 ELSE "None"]
                           /\ query_params' =
                                 IF ex.done
                                 THEN experimental_set_query_params(query_params)
                                 ELSE query_params
                           /\ pc' = IF ex.done THEN "start" ELSE "gate"
             ELSE IF "error" \in DOMAIN query_params
                     /\ Index0(query_params["error"]) = IndexError
             THEN /\ run' = [seen EXCEPT !.auth = "IndexError",
                                         !.raised = "IndexError"]
                  /\ pc' = "idle"
                  /\ UNCHANGED <<session_state, query_params>>
             ELSE /\ run' = [seen EXCEPT !.auth = "None"]
                  /\ pc' = "gate"
                  /\ UNCHANGED <<session_state, query_params>>
    /\ UNCHANGED <<now, max_albums_per_month, authFrame>>

\* "if 'authenticated' not in st.session_state or not ...": the link to the
\* provider, carrying oauth_state, ends the run; else the run goes on
AuthenticationGate ==
    /\ pc = "gate"
    /\ IF "authenticated" \notin DOMAIN session_state
          \/ ~session_state["authenticated"]
       THEN run' = [run EXCEPT !.link = TRUE] /\ pc' = "idle"
       ELSE run' = run /\ pc' = "user"
    /\ UNCHANGED <<session_state, query_params, now, max_albums_per_month,
                   authFrame>>

\* the profile fetch, made once per session with the stored access token;
\* its failure only shows an error
ShowUser ==
    /\ pc = "user"
    /\ IF "user_name" \in DOMAIN session_state
          \/ "access_token" \notin DOMAIN session_state
       THEN UNCHANGED <<session_state, run>>
       ELSE \E answered \in BOOLEAN :
              /\ run' = [run EXCEPT !.calls = Append(@,
                            [api |-> "current_user",
                             token |-> session_state["access_token"],
                             at |-> now,
                             expires_at |-> DictGet(session_state, "expires_at", 0),
                             refreshed |-> FALSE])]
              /\ session_state' = IF answered
                                  THEN Put(session_state, "user_name", "user")
                                  ELSE session_state
    /\ pc' = "expiry"
    /\ UNCHANGED <<query_params, now, max_albums_per_month, authFrame>>

\* ">" for ">=": a token is still used in the second it expires
IsExpired_mut(t, expires_at) == t > expires_at

\* datetime.now() >= st.session_state['expires_at']
IsExpired(t, expires_at) == t >= expires_at

\* "if datetime.now() >= st.session_state['expires_at']": the refresh, and
\* after a failed one the four pops and the rerun
CheckExpiry ==
    /\ pc = "expiry"
    /\ IF "expires_at" \notin DOMAIN session_state
       THEN /\ run' = [run EXCEPT !.raised = "KeyError"]
            /\ pc' = "idle"
            /\ UNCHANGED session_state
       ELSE IF IsExpired(now, session_state["expires_at"])
       THEN \E resp \in Responses :
              LET rt == DictGet(session_state, "refresh_token", "None")
                  post == [grant_type |-> "refresh_token",
                           refresh_token |-> rt, response |-> resp]
                  rf == refresh_access_token(session_state, resp, now)
                  sent == [run EXCEPT !.posts = Append(@, post),
                                      !.expiry = <<session_state["expires_at"]>>]
              IN  IF rf.ret # "None"
                  THEN /\ session_state' = rf.ss
                       /\ run' = [sent EXCEPT !.refresh = "ok"]
                       /\ pc' = "fetch"
                  ELSE /\ session_state' = ClearAuthentication(rf.ss)
                       /\ run' = [sent EXCEPT !.refresh = "failed"]
                       /\ pc' = "start"
       ELSE /\ pc' = "fetch"
            /\ run' = [run EXCEPT !.expiry = <<session_state["expires_at"]>>]
            /\ UNCHANGED session_state
    /\ UNCHANGED <<query_params, now, max_albums_per_month, authFrame>>

\* "if 'top_albums' not in st.session_state": get_top_albums with the stored
\* access token, its return value stored whatever it is; without an access
\* token top_albums stays unbound and the grid code raises NameError
FetchTopAlbums ==
    /\ pc = "fetch"
    /\ IF "top_albums" \in DOMAIN session_state
       THEN /\ pc' = "render"
            /\ UNCHANGED <<session_state, run>>
       ELSE IF "access_token" \notin DOMAIN session_state
       THEN /\ run' = [run EXCEPT !.raised = "NameError"]
            /\ pc' = "idle"
            /\ UNCHANGED session_state
       ELSE \E fetch_outcome \in {"ok", "timeout", "error"} :
              /\ session_state' =
                    Put(session_state, "top_albums",
                        get_top_albums(feed, now_year, fetch_outcome))
              /\ run' = [run EXCEPT
                           !.fetched = TRUE,
                           !.fetched_with = session_state["access_token"],
                           !.fetch_outcome = fetch_outcome,
                           !.fetched_albums =
                               get_top_albums(feed, now_year, fetch_outcome),
                           !.calls = Append(@,
                              [api |-> "current_user_top_tracks",
                               token |-> session_state["access_token"],
                               at |-> now,
                               expires_at |-> DictGet(session_state, "expires_at", 0),
                               refreshed |-> (run.refresh = "ok")])]
              /\ pc' = "render"
    /\ UNCHANGED <<query_params, now, max_albums_per_month, authFrame>>

\* the grid, albums_by_month, the composite image (built once per session
\* and kept as 'byte_im') and the download button; when the image cannot be
\* built byte_im is unbound and the button raises NameError
RenderAlbums ==
    /\ pc = "render"
    /\ LET top_albums == session_state["top_albums"]
           albums_by_month == AlbumsByMonth(top_albums, max_albums_per_month)
           looped == Put(session_state, "top_albums",
                         TopAlbumsAfterRender(top_albums, max_albums_per_month))
           shown == [run EXCEPT !.rows = albums_by_month]
       IN  IF albums_by_month = <<>>
           THEN /\ session_state' = looped
                /\ run' = shown
           ELSE IF "byte_im" \in DOMAIN session_state
           THEN /\ run' = [shown EXCEPT !.offered = session_state["byte_im"]]
                /\ session_state' = looped
           ELSE \E built \in BOOLEAN :
                  IF built
                  THEN /\ session_state' =
                             Put(looped, "byte_im", albums_by_month)
                       /\ run' = [shown EXCEPT !.offered = albums_by_month]
                  ELSE /\ run' = [shown EXCEPT !.raised = "NameError"]
                       /\ session_state' = looped
    /\ pc' = "idle"
    /\ UNCHANGED <<query_params, now, max_albums_per_month, authFrame>>

\* the user moves the slider or clicks: the script runs again
UserEvent ==
    /\ pc = "idle"
    /\ \E v \in SliderValues : max_albums_per_month' = v
    /\ pc' = "start"
    /\ UNCHANGED <<session_state, query_params, now, run, authFrame>>

\* the page is loaded with a query string (the provider's redirect, a link,
\* a reload): a new session
LoadPage ==
    /\ pc = "idle"
    /\ \E q \in QueryStrings : query_params' = q
    /\ session_state' = EmptyDict
    /\ max_albums_per_month' = SliderDefault
    /\ run' = NewRun
    /\ pc' = "start"
    /\ UNCHANGED <<now, authFrame>>

Tick ==
    /\ pc = "idle"
    /\ now < MaxNow
    /\ now' = now + 1
    /\ UNCHANGED <<session_state, query_params, max_albums_per_month, pc, run,
                   authFrame>>

NextAuth ==
    \/ ScriptStart
    \/ handle_auth
    \/ AuthenticationGate
    \/ ShowUser
    \/ CheckExpiry
    \/ FetchTopAlbums
    \/ RenderAlbums
    \/ UserEvent
    \/ LoadPage
    \/ Tick

SpecAuth == InitAuth /\ [][NextAuth]_vars

(***************************************************************************)
(* The OAuth entry points of YearlyAlbums_gradio.py: one process with the  *)
(* module-level dict user_tokens.  State tokens are only stored and        *)
(* compared here, so they are atomic strings.                              *)
(***************************************************************************)
MaxCalls == 2       \* get_token is called at most MaxCalls times

\* the uuid4 values initiate_auth can draw, and one more state that a
\* caller of the callback can make up
IssuableStates == {"s1", "s2"}

CallbackStates == IssuableStates \cup {"s9"}

\* the "code" and "state" a request to /callback can carry: a text, the empty
\* text, or none (request.query_params.get gives None)
RouteCodes == {"c1", "", "None"}

RouteStates == CallbackStates \cup {"", "None"}

\* what get_token returns: sp_oauth.get_access_token's dict, or None when
\* that call raised
TokenInfos == {[access_token |-> a] : a \in AccessTokens}

GetTokenResults == TokenInfos \cup {NoResponse}

InitGradio ==
    /\ AggParked
    /\ AuthParked
    /\ feed = <<>>
    /\ now_year = 2024
    /\ user_tokens = EmptyDict
    /\ issued = {}
    /\ token_calls = <<>>
    /\ reply = "none"

gradioFrame == <<aggVars, authVars>>

\* initiate_auth(): a new uuid4 as state, user_tokens[state] = {}
initiate_auth ==
    /\ \E state \in IssuableStates \ (issued \cup DOMAIN user_tokens) :
         /\ user_tokens' = Put(user_tokens, state, EmptyDict)
         /\ issued' = issued \cup {state}
    /\ reply' = "link"
    /\ UNCHANGED <<token_calls, gradioFrame>>

\* handle_callback(code, state)
handle_callback ==
    /\ Len(token_calls) < MaxCalls
    /\ \E code \in {"c1"}, state \in CallbackStates :
         IF state \notin DOMAIN user_tokens
         THEN /\ reply' = "invalid_state"
              /\ UNCHANGED <<user_tokens, token_calls>>
         ELSE \E token_info \in GetTokenResults :
                /\ token_calls' = Append(token_calls,
                       [by |-> "handle_callback", code |-> code,
                        state |-> state, issued |-> issued])
                /\ IF token_info # NoResponse
                   THEN /\ user_tokens' = Put(user_tokens, state, token_info)
                        /\ reply' = "successful"
                   ELSE /\ user_tokens' = user_tokens
                        /\ reply' = "failed"
    /\ UNCHANGED <<issued, gradioFrame>>

\* GET /callback
callback ==
    /\ Len(token_calls) < MaxCalls
    /\ \E code \in RouteCodes, state \in RouteStates :
         IF code \in {"", "None"} \/ state \in {"", "None"}
         THEN /\ reply' = "missing"
              /\ UNCHANGED <<user_tokens, token_calls>>
         ELSE \E token_info \in GetTokenResults :
                /\ token_calls' = Append(token_calls,
                       [by |-> "callback", code |-> code,
                        state |-> state, issued |-> issued])
                /\ IF token_info # NoResponse
                   THEN /\ user_tokens' = Put(user_tokens, state, token_info)
                        /\ reply' = "redirect"
                   ELSE /\ user_tokens' = user_tokens
                        /\ reply' = "failed"
    /\ UNCHANGED <<issued, gradioFrame>>

NextGradio == initiate_auth \/ handle_callback \/ callback

SpecGradio == InitGradio /\ [][NextGradio]_vars



(***************************************************************************)
(* Claims about the aggregation.  The tracks a run iterates over are       *)
(* all_tracks for get_top_albums and top_tracks['items'] (g_items) for     *)
(* fetch_top_albums.                                                       *)
(***************************************************************************)
AggOk == agg_pc = "done" /\ outcome = "ok"

GradioOk == g_pc = "done" /\ g_outcome = "ok"

\* the month key a parsed date belongs to, as MM/YY
KeyOfDate(d) == TwoDigits(d.month) \o <<"/">> \o TwoDigits(d.year % 100)

\* the i-th of the thirteen keys: December of the year before, then the
\* months of the current year
ExpectedKey(i, y) ==
    IF i = 1 THEN <<"1", "2", "/">> \o TwoDigits((y - 1) % 100)
    ELSE TwoDigits(i - 1) \o <<"/">> \o TwoDigits(y % 100)

DateOf(tracks, j, y) == ParseReleaseDate(tracks[j].album.release_date, y)

\* the date of track j parses, is a valid year, and lies in the window
DateQualifies(tracks, j, y) ==
    LET d == DateOf(tracks, j, y)
    IN  d.ok /\ (d.year = y \/ (d.year = y - 1 /\ d.month = 12))

Qualifies(tracks, j, y) ==
    tracks[j].album.total_tracks >= 3 /\ DateQualifies(tracks, j, y)

\* track j qualifies and no earlier qualifying track carries its album name
FirstQualifying(tracks, j, y) ==
    /\ Qualifies(tracks, j, y)
    /\ \A i \in 1..(j - 1) :
          tracks[i].album.name = tracks[j].album.name => ~Qualifies(tracks, i, y)

RecordOf(tracks, j) ==
    [name |-> tracks[j].album.name,
     artist |-> JoinArtists(tracks[j].album.artists),
     image_url |-> IF tracks[j].album.images = <<>> THEN "None"
                   ELSE tracks[j].album.images[1]]

\* the records, in track order, of the tracks that are the first qualifying
\* ones of their name and whose release month and year make the key
ExpectedBucket(tracks, key, y) ==
    LET picked == SelectSeq([j \in 1..Len(tracks) |-> j],
                            LAMBDA j : /\ FirstQualifying(tracks, j, y)
                                       /\ KeyOfDate(DateOf(tracks, j, y)) = key)
    IN  [k \in 1..Len(picked) |-> RecordOf(tracks, picked[k])]

\* the album records of a result, each as <<bucket, position>>
Entries(res) ==
    UNION {{<<i, k>> : k \in 1..Len(res[i].albums)} : i \in 1..Len(res)}

\* C3: a run that completes without an error returns exactly thirteen keys,
\* December of the year before and then January to December of the current
\* year, each as MM/YY, and a month no qualifying album of the iterated
\* tracks falls in maps to the empty sequence.
ThirteenKeys(res, tracks) ==
    /\ Len(res) = 13
    /\ \A i \in 1..13 :
          /\ res[i].month = ExpectedKey(i, now_year)
          /\ Len(res[i].month) = 5
          /\ (~\E j \in 1..Len(tracks) :
                  /\ Qualifies(tracks, j, now_year)
                  /\ KeyOfDate(DateOf(tracks, j, now_year)) = res[i].month)
             => res[i].albums = <<>>

EmptyThirteen(res) ==
    /\ Len(res) = 13
    /\ \A i \in 1..Len(res) :
          res[i].month = ExpectedKey(i, now_year) /\ res[i].albums = <<>>

C4_FailClosed ==
    /\ (agg_pc = "done" /\ outcome = "error") => EmptyThirteen(result)
    /\ (g_pc = "done" /\ g_outcome = "api_error") => EmptyThirteen(g_result)

NameCount(res, n) == Cardinality({e \in Entries(res) : res[e[1]].albums[e[2]].name = n})

\* the first of the iterated tracks that carries album name n
EarliestNamed(tracks, n) ==
    CHOOSE j \in 1..Len(tracks) :
        /\ tracks[j].album.name = n
        /\ \A i \in 1..(j - 1) : tracks[i].album.name # n

\* C7 as stated: each album name lies in at most one record of the result,
\* and that record has the artist and cover of the earliest iterated track
\* that carries the name.
EarliestTrackWins(res, tracks) ==
    \A e \in Entries(res) :
        LET r == res[e[1]].albums[e[2]]
        IN  /\ NameCount(res, r.name) = 1
            /\ r = RecordOf(tracks, EarliestNamed(tracks, r.name))

C7_EarliestTrackWins ==
    /\ AggOk => EarliestTrackWins(result, all_tracks)
    /\ GradioOk => EarliestTrackWins(g_result, g_items)

\* C7 amended: each album name lies in at most one record of the result, and
\* that record has the artist and cover of the earliest iterated track that
\* carries the name and passes the track-count, date and window filters;
\* later tracks of that name are dropped even if their metadata differs.
EarliestQualifyingWins(res, tracks) ==
    \A e \in Entries(res) :
        LET r == res[e[1]].albums[e[2]]
        IN  /\ NameCount(res, r.name) = 1
            /\ \E j \in 1..Len(tracks) :
                  /\ tracks[j].album.name = r.name
                  /\ FirstQualifying(tracks, j, now_year)
                  /\ r = RecordOf(tracks, j)

C7_EarliestQualifyingWins ==
    /\ AggOk => EarliestQualifyingWins(result, all_tracks)
    /\ GradioOk => EarliestQualifyingWins(g_result, g_items)

\* two qualifying tracks share a name and differ in artist and cover; the
\* record is the first one's
C7_Witness ==
    /\ AggOk
    /\ Len(all_tracks) = 2
    /\ all_tracks[1].album.name = all_tracks[2].album.name
    /\ Qualifies(all_tracks, 1, now_year) /\ Qualifies(all_tracks, 2, now_year)
    /\ RecordOf(all_tracks, 1) # RecordOf(all_tracks, 2)
    /\ \E e \in Entries(result) :
          result[e[1]].albums[e[2]] = RecordOf(all_tracks, 1)
    /\ \A e \in Entries(result) :
          result[e[1]].albums[e[2]] # RecordOf(all_tracks, 2)

\* C8: get_top_albums requests pages of 50 at offsets 0, 50, 100, ... one
\* after the other, stops after the first page of fewer than 50 items, so
\* that a feed of N tracks takes N \div 50 + 1 requests and never more (each
\* turn of the loop issues one, and a run that has not returned is at the
\* loop or at the bucketing, whose steps are then enabled, so the loop
\* ends), and all N tracks are iterated by the bucketing loop.
PaginationInv ==
    /\ \A i \in 1..Len(fetches) : fetches[i] = 50 * (i - 1)
    /\ Len(fetches) <= (Len(feed) \div 50) + 1
    /\ agg_pc \in {"off", "paging", "process"} <=> outcome = "running"
    /\ agg_pc = "paging" =>
          /\ offset = 50 * Len(fetches)
          /\ offset <= Len(feed)
          /\ all_tracks = SubSeq(feed, 1, offset)
    /\ (agg_pc = "process" \/ AggOk) =>
          /\ Len(fetches) = (Len(feed) \div 50) + 1
          /\ all_tracks = feed
    /\ AggOk =>
          \A j \in 1..Len(feed) :
              Qualifies(feed, j, now_year) =>
                  \E e \in Entries(result) :
                      result[e[1]].albums[e[2]].name = feed[j].album.name

C8_Pagination ==
    /\ PaginationInv
    /\ agg_pc \in {"off", "paging", "process", "done"}

\* 52 tracks: two requests, at 0 and 50, and an album of the second page in
\* its bucket
C8_Witness ==
    /\ AggOk
    /\ Len(feed) = 52
    /\ now_year = 2024
    /\ fetches = <<0, 50>>
    /\ \E k \in 1..Len(result[4].albums) :
          result[4].albums[k].name = feed[51].album.name

\* C9: every bucket holds, in track iteration order, exactly the records of
\* the iterated tracks that pass the track-count and date guards, are
\* released in the current year or in December of the year before, carry a
\* name no earlier such track carried, and whose release month and year are
\* the bucket's key.
BucketsExact(res, tracks) ==
    \A i \in 1..Len(res) :
        res[i].albums = ExpectedBucket(tracks, res[i].month, now_year)

C9_Bucketing ==
    /\ AggOk => Len(result) = 13 /\ BucketsExact(result, all_tracks)
    /\ GradioOk => Len(g_result) = 13 /\ BucketsExact(g_result, g_items)

\* December of the year before and a month of the current year are both
\* filled, and an album of another month of the year before is left out
C9_Witness ==
    /\ AggOk
    /\ now_year = 2025
    /\ Len(all_tracks) = 2
    /\ Len(result[1].albums) = 1
    /\ \E j \in 1..2 :
          LET d == DateOf(all_tracks, j, now_year)
          IN  d.ok /\ d.year = 2024 /\ d.month = 11
              /\ all_tracks[j].album.total_tracks >= 3

\* C10: no record of a result comes from an album of fewer than three
\* tracks (a name that only such albums carry is in no bucket), and an
\* album of exactly three tracks whose date qualifies and whose name no
\* earlier qualifying track carried has its record in the bucket of its
\* release month.
TrackCountRule(res, tracks) ==
    /\ \A e \in Entries(res) :
          \E j \in 1..Len(tracks) :
              /\ tracks[j].album.total_tracks >= 3
              /\ RecordOf(tracks, j) = res[e[1]].albums[e[2]]
    /\ \A j \in 1..Len(tracks) :
          (\A i \in 1..Len(tracks) :
               tracks[i].album.name = tracks[j].album.name
                   => tracks[i].album.total_tracks < 3)
          => NameCount(res, tracks[j].album.name) = 0
    /\ \A j \in 1..Len(tracks) :
          (/\ tracks[j].album.total_tracks = 3
           /\ DateQualifies(tracks, j, now_year)
           /\ \A i \in 1..(j - 1) :
                 (tracks[i].album.total_tracks >= 3 /\ DateQualifies(tracks, i, now_year))
                     => tracks[i].album.name # tracks[j].album.name)
          => \E i \in 1..Len(res) :
                 /\ res[i].month = KeyOfDate(DateOf(tracks, j, now_year))
                 /\ \E k \in 1..Len(res[i].albums) :
                       res[i].albums[k] = RecordOf(tracks, j)

C10_TrackCount ==
    /\ AggOk => TrackCountRule(result, all_tracks)
    /\ GradioOk => TrackCountRule(g_result, g_items)

\* an album of two tracks is left out and one of three tracks is in
C10_Witness ==
    /\ AggOk
    /\ Len(all_tracks) = 2
    /\ all_tracks[1].album.total_tracks = 2
    /\ DateQualifies(all_tracks, 1, now_year)
    /\ NameCount(result, all_tracks[1].album.name) = 0
    /\ all_tracks[2].album.total_tracks = 3
    /\ NameCount(result, all_tracks[2].album.name) = 1

(***************************************************************************)
(* Claims about the OAuth callback and the token lifecycle.                *)
(***************************************************************************)
\* handle_auth has run in the current script run
Handled == run.auth # "not_called"

\* the callback's query string holds a code that is not empty
CarriesCode(q) == "code" \in DOMAIN q /\ q["code"] # <<>>

\* the state parameter as the URL carries it, None when there is none
StateParam(q) == IF "state" \in DOMAIN q THEN q["state"] ELSE NoneText

ExchangePosts(r) ==
    SelectSeq(r.posts, LAMBDA p : p.grant_type = "authorization_code")

\* C1: for every callback that carries a code and whose state parameter
\* differs from the stored oauth_state, handle_auth sends no request to the
\* token endpoint, returns None, and leaves access_token, refresh_token,
\* expires_at and authenticated as they were.
C1_MismatchDiscarded ==
    (Handled /\ CarriesCode(run.qp) /\ StateParam(run.qp) # run.stored) =>
        /\ ExchangePosts(run) = <<>>
        /\ run.auth = "None"
        /\ run.after = run.before

WellFormed(resp) ==
    /\ resp.kind = "ok"
    /\ {"access_token", "refresh_token", "expires_in"} \subseteq DOMAIN resp.payload

\* C5: when the callback carries a code and a state equal to the stored
\* oauth_state and the token endpoint answers 2xx with a well-formed
\* payload, handle_auth leaves authenticated = True and access_token,
\* refresh_token and expires_at = now + expires_in taken from the answer.
C5_MatchingCallbackAuthenticates ==
    (/\ Handled
     /\ CarriesCode(run.qp)
     /\ StateParam(run.qp) = run.stored
     /\ WellFormed(run.endpoint)) =>
        /\ run.auth = "rerun"
        /\ run.after =
             [authenticated |-> TRUE,
              access_token |-> run.endpoint.payload.access_token,
              refresh_token |-> run.endpoint.payload.refresh_token,
              expires_at |-> run.at + run.endpoint.payload.expires_in]

RefreshPosts(r) ==
    SelectSeq(r.posts, LAMBDA p : p.grant_type = "refresh_token")

\* C6: a failed refresh of an expired token removes authenticated,
\* access_token, refresh_token and expires_at and ends the run in a rerun
\* before get_top_albums is invoked; the run that follows shows the
\* authentication link and goes no further; a successful refresh leaves
\* the session authenticated with the answer's access_token and
\* expires_at = now + expires_in.
C6_RefreshOutcome ==
    /\ run.refresh = "failed" =>
          /\ TokenKeys \cap DOMAIN session_state = {}
          /\ pc = "start"
          /\ ~run.fetched
          /\ \A i \in 1..Len(run.calls) :
                run.calls[i].api # "current_user_top_tracks"
    /\ run.after_failed_refresh =>
          /\ pc \notin {"user", "expiry", "fetch", "render"}
          /\ pc = "idle" => run.link /\ run.raised = "none"
          /\ ~run.fetched
    /\ run.refresh = "ok" =>
          LET p == RefreshPosts(run)[1].response.payload
          IN  /\ Len(RefreshPosts(run)) = 1
              /\ session_state["authenticated"] = TRUE
              /\ session_state["access_token"] = p.access_token
              /\ session_state["expires_at"] = run.at + p.expires_in
              /\ run.at >= 0

\* a run has ended with the authentication link on the page, after the run
\* before it had cleared the session because the refresh failed
C6_Witness ==
    /\ run.after_failed_refresh
    /\ pc = "idle"
    /\ run.link
    /\ TokenKeys \cap DOMAIN session_state = {}

\* C2: a callback whose state was never issued by initiate_auth never causes
\* a call of get_token and never adds or changes an entry of user_tokens,
\* whichever entry point receives it.
C2_UnissuedStateIgnored ==
    /\ \A i \in 1..Len(token_calls) :
          token_calls[i].state \in token_calls[i].issued
    /\ DOMAIN user_tokens \subseteq issued

(***************************************************************************)
(* Claims about skipped albums.                                            *)
(***************************************************************************)
\* the release date of track j does not parse, or its year is outside
\* 1901..y
BadDate(tracks, j, y) ==
    LET text == tracks[j].album.release_date
        d == strptime(text, IF Len(text) = 4 THEN "%Y"
                            ELSE IF Len(text) = 7 THEN "%Y-%m"
                            ELSE "%Y-%m-%d")
    IN  ~d.ok \/ d.year <= 1900 \/ d.year > y

RemoveAt(s, j) == SubSeq(s, 1, j - 1) \o SubSeq(s, j + 1, Len(s))

\* for every iterated track with a bad date: the result is the thirteen-key
\* result of the same tracks without it, and no record of the result comes
\* from that track
SkipIsNotFatal(res, tracks) ==
    \A j \in 1..Len(tracks) :
        BadDate(tracks, j, now_year) =>
            /\ res = get_top_albums(RemoveAt(tracks, j), now_year, "ok")
            /\ Len(res) = 13
            /\ \A e \in Entries(res) :
                  \E i \in (1..Len(tracks)) \ {j} :
                      /\ FirstQualifying(tracks, i, now_year)
                      /\ res[e[1]].albums[e[2]] = RecordOf(tracks, i)

\* C11: an album whose release date fails to parse, or whose parsed year is
\* <= 1900 or greater than the current year, is in no bucket, and skipping
\* it is not fatal: the run returns the thirteen-key result it returns for
\* the same tracks with that track removed.
C11_SkipIsNotFatal ==
    /\ AggOk => SkipIsNotFatal(result, all_tracks)
    /\ GradioOk => SkipIsNotFatal(g_result, g_items)

\* a track with three or more tracks on its album and a bad date (1899, the
\* year after the current one, the 30th of February) is followed by a
\* qualifying track, whose record is in the result
C11_Witness ==
    /\ AggOk
    /\ Len(all_tracks) = 2
    /\ all_tracks[1].album.total_tracks >= 3
    /\ BadDate(all_tracks, 1, now_year)
    /\ Qualifies(all_tracks, 2, now_year)
    /\ \E e \in Entries(result) :
          result[e[1]].albums[e[2]] = RecordOf(all_tracks, 2)

(***************************************************************************)
(* Claims about the refresh.                                               *)
(***************************************************************************)
\* the refresh request of the current run and the payload of its answer
RefreshPost == RefreshPosts(run)[1]

\* C12: a successful refresh stores the answer's access_token and
\* expires_at = now + expires_in, and stores the answer's refresh_token if
\* the answer has one; if it has none the stored refresh_token stays the
\* one the request was made with, so a session that held a refresh token
\* holds one after any number of refreshes.
C12_RefreshTokenKept ==
    run.refresh = "ok" =>
        LET p == RefreshPost.response.payload
        IN  /\ session_state["access_token"] = p.access_token
            /\ session_state["expires_at"] = run.at + p.expires_in
            /\ "refresh_token" \in DOMAIN session_state
            /\ IF "refresh_token" \in DOMAIN p
               THEN session_state["refresh_token"] = p.refresh_token
               ELSE session_state["refresh_token"] = RefreshPost.refresh_token
            /\ RefreshPost.refresh_token # "None"
                  => session_state["refresh_token"] # "None"

\* a refresh whose answer holds no refresh_token has succeeded and the
\* session still holds the refresh token of the code exchange
C12_Witness ==
    /\ run.refresh = "ok"
    /\ "refresh_token" \notin DOMAIN RefreshPost.response.payload
    /\ session_state["access_token"] = "at2"
    /\ session_state["refresh_token"] = "rt1"
    /\ RefreshPost.refresh_token = "rt1"

\* C13: in an authenticated run a refresh is requested exactly when
\* now >= expires_at at the expiry check: at now = expires_at it is, at
\* now < expires_at it is not, and no refresh is requested anywhere else.
C13_RefreshIffExpired ==
    /\ run.expiry = <<>> => RefreshPosts(run) = <<>>
    /\ run.expiry # <<>> =>
          /\ (Len(RefreshPosts(run)) = 1) <=> (run.at >= run.expiry[1])
          /\ (RefreshPosts(run) = <<>>) <=> (run.at < run.expiry[1])

\* the check was made in the very second the token expires, and the refresh
\* was requested
C13_Witness ==
    /\ run.expiry = <<run.at>>
    /\ Len(RefreshPosts(run)) = 1

(***************************************************************************)
(* Claims about the transport of the token requests.                       *)
(***************************************************************************)
\* Retry(total=5): the retries the configured adapter would allow
RetryTotal == 5

SameGrant(r, i) ==
    {k \in 1..Len(r.posts) : r.posts[k].grant_type = r.posts[i].grant_type}

ServerError(resp) == resp.kind = "http_error" /\ resp.status >= 500

ClientError(resp) == resp.kind = "http_error" /\ resp.status < 500

\* C14: a token request (code exchange or refresh) answered with a 5xx is
\* sent again, unless the retries are used up, and one answered with a
\* 4xx is never sent again.
C14_RetriedOn5xx ==
    \A i \in 1..Len(run.posts) :
        /\ ServerError(run.posts[i].response) =>
              \/ \E k \in SameGrant(run, i) : k > i
              \/ Cardinality(SameGrant(run, i)) = RetryTotal + 1
        /\ ClientError(run.posts[i].response) =>
              \A k \in SameGrant(run, i) : k <= i

(***************************************************************************)
(* Claims about the life of the state token.                               *)
(***************************************************************************)
\* handle_auth has compared the callback's state with the stored one
Compared == Handled /\ run.auth # "IndexError" /\ "code" \in DOMAIN run.qp

\* C15: the stored oauth_state is one-time: once handle_auth has compared a
\* callback with it, that value is no longer the session's oauth_state, and
\* a later callback carrying a state that was already compared sends no
\* code exchange and leaves the stored tokens as they were.
C15_StateIsOneTime ==
    /\ Compared =>
          \/ "oauth_state" \notin DOMAIN session_state
          \/ session_state["oauth_state"] # run.stored
    /\ (Compared /\ run.repeat) =>
          /\ ExchangePosts(run) = <<>>
          /\ run.after = run.before

(***************************************************************************)
(* Claims about year-only release dates.                                   *)
(***************************************************************************)
\* the release date of track j is four digits
YearOnly(tracks, j) ==
    /\ Len(tracks[j].album.release_date) = 4
    /\ MatchYear(tracks[j].album.release_date).ok

YearOnlyOf(tracks, j) == MatchYear(tracks[j].album.release_date).val

\* the key of January of year y, as MM/YY
JanuaryKey(y) == <<"0", "1", "/">> \o TwoDigits(y % 100)

YearOnlyRule(res, tracks) ==
    \A j \in 1..Len(tracks) :
        YearOnly(tracks, j) =>
            /\ (/\ YearOnlyOf(tracks, j) = now_year
                /\ tracks[j].album.total_tracks >= 3
                /\ \A i \in 1..(j - 1) :
                      tracks[i].album.name = tracks[j].album.name
                          => ~Qualifies(tracks, i, now_year)) =>
                  /\ res[2].month = JanuaryKey(now_year)
                  /\ \E k \in 1..Len(res[2].albums) :
                        res[2].albums[k] = RecordOf(tracks, j)
            /\ YearOnlyOf(tracks, j) = now_year - 1 =>
                  \A e \in Entries(res) :
                      res[e[1]].albums[e[2]].name = tracks[j].album.name =>
                          \E i \in 1..Len(tracks) :
                              /\ ~(YearOnly(tracks, i)
                                   /\ YearOnlyOf(tracks, i) = now_year - 1)
                              /\ FirstQualifying(tracks, i, now_year)
                              /\ res[e[1]].albums[e[2]] = RecordOf(tracks, i)

\* C16: a four-digit release date parses to January: when the year is the
\* current one the album is placed in the January bucket of the current
\* year (its track count and name permitting), and when it is the year
\* before the album is in no bucket.
C16_YearOnlyIsJanuary ==
    /\ AggOk => YearOnlyRule(result, all_tracks)
    /\ GradioOk => YearOnlyRule(g_result, g_items)

\* a year-only album of the year before, then a year-only album of the
\* current year: the result holds the second one alone, in January
C16_Witness ==
    /\ AggOk
    /\ Len(all_tracks) = 2
    /\ YearOnly(all_tracks, 1) /\ YearOnlyOf(all_tracks, 1) = now_year - 1
    /\ YearOnly(all_tracks, 2) /\ YearOnlyOf(all_tracks, 2) = now_year
    /\ all_tracks[1].album.total_tracks >= 3
    /\ result[2].albums = <<RecordOf(all_tracks, 2)>>
    /\ Cardinality(Entries(result)) = 1

(***************************************************************************)
(* Claims about the paging of fetch_top_albums.                            *)
(***************************************************************************)
\* C17: fetch_top_albums pages through the feed until a page holds fewer
\* than 50 items: it iterates every track of the feed, so that each track
\* of a feed of more than 50 tracks that qualifies, first of its name, has
\* its record in the result.
C17_GradioPages ==
    GradioOk =>
        /\ g_items = feed
        /\ \A j \in 1..Len(feed) :
              FirstQualifying(feed, j, now_year) =>
                  \E e \in Entries(g_result) :
                      g_result[e[1]].albums[e[2]] = RecordOf(feed, j)

(***************************************************************************)
(* Claims about the composite image and the grid.                          *)
(***************************************************************************)
\* the albums of a row of the image, its None placeholders left out
RealAlbums(row) == SelectSeq(row, LAMBDA a : a # NoAlbum)

\* a run has ended with the download button on the page
DownloadOffered == pc = "idle" /\ run.offered # <<>>

\* C18: the image offered for download has one row per month, holding the
\* first min(n, L) albums of the month's bucket of n albums, L being
\* max_albums_per_month of the run that offers the download.
C18_ImageFollowsLimit ==
    DownloadOffered =>
        LET top_albums == session_state["top_albums"]
        IN  /\ Len(run.offered) = Len(top_albums)
            /\ \A i \in 1..Len(top_albums) :
                  /\ run.offered[i].month = top_albums[i].month
                  /\ RealAlbums(run.offered[i].albums) =
                        SubSeq(top_albums[i].albums, 1,
                               Min(Len(top_albums[i].albums),
                                   max_albums_per_month))

(***************************************************************************)
(* Claims about the token the API calls are made with.                     *)
(***************************************************************************)
\* C19: every Spotify API call of a run (the profile fetch, the top-tracks
\* fetch) is made with the stored access token while now < expires_at, or
\* after a refresh that succeeded earlier in the same run.
C19_CallsUseValidToken ==
    \A i \in 1..Len(run.calls) :
        \/ run.calls[i].at < run.calls[i].expires_at
        \/ run.calls[i].refreshed

\* ---------------------------------------------------------------------
\* C20  Whenever a new access token is issued in a session (a successful
\* refresh, or a re-authentication after a failed refresh), the cached
\* 'top_albums' is invalidated: the albums a run is about to display were
\* fetched with the access token the session stores at that moment.
\* ---------------------------------------------------------------------
C20_AlbumsFetchedWithStoredToken ==
    pc = "render" =>
        run.fetched_with = DictGet(session_state, "access_token", NoneText)

\* ---------------------------------------------------------------------
\* C21  After get_top_albums failed with a timeout, a later run of the
\* same authenticated session calls get_top_albums again: a run that is
\* about to display the session's top_albums never displays the result of
\* a timed-out call made by an earlier run.
\* ---------------------------------------------------------------------
C21_FailedResultNotKept ==
    (pc = "render" /\ run.fetch_outcome = "timeout") => run.fetched

\* ---------------------------------------------------------------------
\* C22  Once handle_auth has exchanged an authorization code successfully,
\* the query parameters are empty when the script reruns, and no later run
\* of the session posts that code to the token endpoint again.
\* ---------------------------------------------------------------------
C22_CodeNotResubmitted ==
    /\ run.auth = "rerun" => query_params = EmptyDict
    /\ ~run.resubmitted

\* a run that follows a successful exchange in the same session has been
\* through handle_auth
C22_Witness ==
    /\ run.exchanged # {}
    /\ run.auth = "None"
    /\ pc = "idle"

\* the token endpoint's answer makes the exchange fail: not a 2xx answer,
\* no answer at all, or a payload without access_token or expires_in
ExchangeFailed(resp) ==
    \/ resp.kind # "ok"
    \/ ~({"access_token", "expires_in"} \subseteq DOMAIN resp.payload)

\* ---------------------------------------------------------------------
\* C23  When the code exchange of handle_auth fails (non-2xx answer,
\* transport error, or a payload without access_token or expires_in),
\* access_token, refresh_token, expires_at and authenticated are as they
\* were before handle_auth: none is created or modified.
\* ---------------------------------------------------------------------
C23_FailedExchangeLeavesTokens ==
    \A i \in 1..Len(ExchangePosts(run)) :
        ExchangeFailed(ExchangePosts(run)[i].response) =>
            run.after = run.before

\* the session state says the user is authenticated
Authenticated(ss) == DictGet(ss, "authenticated", FALSE) = TRUE

\* ---------------------------------------------------------------------
\* C24  After any sequence of callbacks, refreshes and reruns, and in
\* particular at the end of every run, authenticated = True in the
\* session state implies that access_token and expires_at are both in
\* the session state.
\* ---------------------------------------------------------------------
C24_AuthenticatedHasToken ==
    Authenticated(session_state) =>
        {"access_token", "expires_at"} \subseteq DOMAIN session_state

\* the end of a run that refreshed the token of a session authenticated by
\* a callback
C24_Witness ==
    /\ pc = "idle"
    /\ Authenticated(session_state)
    /\ run.exchanged # {}
    /\ run.refresh = "ok"

\* the albums of every bucket of an ordered dict, in order
Buckets(top_albums) == [i \in 1..Len(top_albums) |-> top_albums[i].albums]

\* ---------------------------------------------------------------------
\* C25  Rendering the grid and building albums_by_month leaves the
\* session's top_albums as get_top_albums returned it, over any number of
\* runs and limits: no bucket loses an album or holds a None entry; and at
\* the end of a run each row of albums_by_month has exactly
\* max_albums_per_month entries.
\* ---------------------------------------------------------------------
C25_RenderKeepsTopAlbums ==
    /\ "top_albums" \in DOMAIN session_state =>
          /\ session_state["top_albums"] = run.fetched_albums
          /\ \A i \in 1..Len(session_state["top_albums"]) :
                \A k \in 1..Len(session_state["top_albums"][i].albums) :
                    session_state["top_albums"][i].albums[k] # NoAlbum
    /\ pc = "idle" =>
          \A i \in 1..Len(run.rows) :
              Len(run.rows[i].albums) = max_albums_per_month

\* the end of a later run of a session whose limit is below the default: a
\* bucket of more albums than the limit was cut and a bucket of fewer was
\* padded
C25_Witness ==
    /\ pc = "idle"
    /\ ~run.fetched
    /\ max_albums_per_month = SliderMin
    /\ run.rows # <<>>
    /\ \E i \in 1..Len(run.rows) :
          Len(Buckets(session_state["top_albums"])[i]) > max_albums_per_month
    /\ \E i \in 1..Len(run.rows) :
          /\ Buckets(session_state["top_albums"])[i] # <<>>
          /\ run.rows[i].albums[max_albums_per_month] = NoAlbum

====
